---- MODULE Spec2Model ----
(***************************************************************************)
(* Model of spatial_tools/plotting/_graph.py: three plotting operations    *)
(* that read precomputed results from an AnnData container (uns, obs) and  *)
(* draw into matplotlib's process-wide drawing context.                    *)
(*                                                                         *)
(* Strings are modelled as sequences of tokens, so that "the message       *)
(* contains the key" is a real sub-sequence test: the key "ripley_k_" +    *)
(* cluster_key is <<"ripley_k_", cluster_key>>.                            *)
(***************************************************************************)
EXTENDS Integers, Sequences, FiniteSets, TLC

\* Largest number of clusters (table rows, labels) a container holds.
MaxClusters == 2
\* Largest number of figures the drawing context is followed up to.
MaxFigs == 2

VARIABLES
    uns,        \* adata.uns: key -> stored result (domain = keys present)
    obs,        \* adata.obs: column name -> column (domain = columns present)
    figures,    \* matplotlib's figures, in order of creation
    gcf,        \* index of the current figure, 0 when there is none
    gca,        \* current axes of the current figure, NoAxes when none
    call,       \* the last call: operation and arguments
    outcome,    \* how the last call ended: "ok" or the exception class raised
    message,    \* the message of the exception the last call raised
    lookups,    \* the container lookups the last call performed, in order
    drawn       \* the plotting-library calls the last call issued, in order

vars == <<uns, obs, figures, gcf, gca, call, outcome, message, lookups, drawn>>

----------------------------------------------------------------------------
\* Values

None == [none |-> TRUE]
NoAxes == <<0, 0, 0>>

ClusterKeys == {"leiden", "louvain"}
\* The cluster key the upstream steps were run with.
StoredClusterKey == "leiden"
ClusterLabels == 1..MaxClusters

CentralityDefaultKey == <<"cluster_centrality_scores">>
InteractionsDefaultKey == <<"cluster_interactions">>

\* f"ripley_k_{cluster_key}"
DerivedKey(cluster_key) == <<"ripley_k_", cluster_key>>
\* f"{cluster_key}_colors"
ColorsKey(cluster_key) == <<cluster_key, "_colors">>

\* The columns of the table nhood.cluster_centrality_scores stores.
CentralityColumns ==
    <<"cluster", "degree centrality", "clustering coefficient",
      "closeness centrality", "betweenness centrality">>

CentralityTables ==
    { [columns |-> CentralityColumns, nrows |-> n] : n \in 1..MaxClusters }

\* The label orders an interaction result can carry: the first m cluster
\* labels, ascending or descending, m = 0..MaxClusters.
LabelSeqs ==
    UNION { { [i \in 1..m |-> i], [i \in 1..m |-> m + 1 - i] } : m \in 0..MaxClusters }

\* (matrix, labels): the matrix is kept by its shape.
InteractionResults ==
    { <<[shape |-> <<Len(l), Len(l)>>], l>> : l \in LabelSeqs }

StoredRipley == [table |-> "ripley_k", origin |-> "uns"]
SuppliedRipley == [table |-> "ripley_k", origin |-> "argument"]

\* A column of obs: the set of labels occurring in it, or a column whose
\* values numpy cannot order (np.sort raises ValueError).
Unsortable == [unsortable |-> TRUE]
ObsColumns == { [labels |-> 1..n] : n \in ClusterLabels } \cup {Unsortable}

Palette == [i \in 1..MaxClusters |-> i]

----------------------------------------------------------------------------
\* Helpers

Contains(msg, key) ==
    \E i \in 0..(Len(msg) - Len(key)) : \A j \in 1..Len(key) : msg[i + j] = key[j]

Min(S) == CHOOSE x \in S : \A y \in S : x <= y

RECURSIVE SortedSeq(_)
SortedSeq(S) == IF S = {} THEN <<>> ELSE <<Min(S)>> \o SortedSeq(S \ {Min(S)})

Elems(s) == { s[i] : i \in 1..Len(s) }

----------------------------------------------------------------------------
\* Exceptions (Python's built-in hierarchy, as far as the module uses it)

NoExc == "none"

IsSubclass(exc, cls) ==
    \/ exc = cls
    \/ cls = "Exception" /\ exc \in {"ValueError", "KeyError", "LookupError", "Warning"}
    \/ cls = "LookupError" /\ exc = "KeyError"

\* str(KeyError(key)): the key between quotes
KeyErrorMessage(key) == <<"'">> \o key \o <<"'">>

CentralityMessage(centrality_scores_key) ==
    <<"centrality_scores_key ">> \o centrality_scores_key
    \o <<" not recognized. Choose a different key or run first ",
         "nhood.cluster_centrality_scores(adata) on your AnnData object.">>

InteractionsMessage(cluster_interactions_key) ==
    <<"cluster_interactions_key ">> \o cluster_interactions_key
    \o <<" not recognized. Choose a different key or run first ",
         "nhood.cluster_interactions(adata) on your AnnData object.">>

PaletteMessage(cluster_key) ==
    <<"\there is no color palette in adata_uns for ", cluster_key, "\n">>

\* The text of lines 132-135, cut at the interpolated key; the stray
\* backslashes and the quotation marks around the key are left out.
\* The source spells the key prefix "riply_k_".
RipleyMessage(cluster_key) ==
    <<"looks like ", "riply_k_", cluster_key, " was not used\n\n",
      "is not present in adata.uns,\n",
      "\tplease rerun ripley_k or pass\n",
      "\ta dataframe">>

SeabornMessage(name) == <<"Could not interpret input ", name>>

----------------------------------------------------------------------------
\* The container

\* adata.uns_keys()
UnsKeys(u) == DOMAIN u

\* mapping[key] of a dict or a data frame: the value, or KeyError
GetItem(mapping, key) ==
    IF key \in DOMAIN mapping
    THEN [exc |-> NoExc, msg |-> <<>>, val |-> mapping[key]]
    ELSE [exc |-> "KeyError", msg |-> KeyErrorMessage(key), val |-> None]

\* The display names of the four metric columns.
DisplayName(column) ==
    CASE column = "degree centrality" -> "degree\ncentrality"
      [] column = "clustering coefficient" -> "clustering\ncoefficient"
      [] column = "closeness centrality" -> "closeness\ncentrality"
      [] column = "betweenness centrality" -> "betweenness\ncentrality"
      [] OTHER -> column

\* df.rename(columns=...) with the default inplace=False:
\* ret is the frame returned, self the frame df is afterwards.
DataFrameRenameInplace(df) ==
    LET renamed == [df EXCEPT !.columns = [i \in DOMAIN @ |-> DisplayName(@[i])]]
    IN  [ret |-> renamed, self |-> renamed]

DataFrameRename(df) ==
    [ret |-> [df EXCEPT !.columns = [i \in DOMAIN @ |-> DisplayName(@[i])]],
     self |-> df]

values ==
    <<"degree\ncentrality", "clustering\ncoefficient",
      "closeness\ncentrality", "betweenness\ncentrality">>

----------------------------------------------------------------------------
\* The drawing context: ctx = [figures, gcf, gca]

NewFigure == [subplots |-> {}, colorbars |-> 0]

\* plt.figure(): a new figure, made current
PltFigure(ctx) ==
    [figures |-> Append(ctx.figures, NewFigure),
     gcf |-> Len(ctx.figures) + 1,
     gca |-> NoAxes]

\* fig.add_subplot(spec) on the current figure
AddSubplot(ctx, spec) ==
    [ctx EXCEPT !.figures[ctx.gcf].subplots = @ \cup {spec}, !.gca = spec]

\* plt.subplot(spec): on the current figure, which is created when there is none
PltSubplot(ctx, spec) ==
    AddSubplot(IF ctx.gcf = 0 THEN PltFigure(ctx) ELSE ctx, spec)

\* fig.colorbar(cax): a colour bar beside the axes; the current axes stay
FigColorbar(ctx) ==
    [ctx EXCEPT !.figures[ctx.gcf].colorbars = @ + 1]

\* range(n), as the sequence 0, 1, ..., n-1
RangeFromOne(n) == [i \in 1..n |-> i]

Range(n) == [i \in 1..n |-> i - 1]

----------------------------------------------------------------------------
\* What an operation returns to the step that models its call.

Raise(exc, msg, looked, done, ctx, u) ==
    [outcome |-> exc, message |-> msg, lookups |-> looked, drawn |-> done,
     ctx |-> ctx, uns |-> u]

Return(looked, done, ctx, u) ==
    [outcome |-> "ok", message |-> <<>>, lookups |-> looked, drawn |-> done,
     ctx |-> ctx, uns |-> u]

----------------------------------------------------------------------------
\* plot_cluster_centrality_scores

\* "if i > 1" suppresses the row-axis label and tick labels: TRUE = kept
KeepsRowLabelsAll(i) == TRUE

KeepsRowLabels(i) == ~(i > 1)

\* sns.stripplot(data=df, y="cluster", x=value, ...) on the current axes:
\* one point per row of df
StripPlot(df, ctx, i) ==
    [fn |-> "stripplot", figure |-> ctx.gcf, axes |-> ctx.gca,
     x |-> values[i], y |-> "cluster", points |-> df.nrows,
     ylabel |-> KeepsRowLabels(i), labelleft |-> KeepsRowLabels(i)]

\* for i, value in zip([1, 2, 3, 4], values): ...
RECURSIVE StripLoop(_, _, _, _)
StripLoop(df, ctx, i, done) ==
    IF i > Len(values)
    THEN [exc |-> NoExc, msg |-> <<>>, ctx |-> ctx, drawn |-> done]
    ELSE LET c1 == PltSubplot(ctx, <<1, 4, i>>)
             missing == { c \in {"cluster", values[i]} : c \notin Elems(df.columns) }
         IN  IF missing # {}
             THEN [exc |-> "ValueError",
                   msg |-> SeabornMessage(CHOOSE c \in missing : TRUE),
                   ctx |-> c1, drawn |-> done]
             ELSE StripLoop(df, c1, i + 1, Append(done, StripPlot(df, c1, i)))

CentralityBody(u, ctx, centrality_scores_key) ==
    LET looked == <<<<"uns_keys">>, <<"uns">> \o centrality_scores_key>>
        rn == DataFrameRename(u[centrality_scores_key])
        u1 == [u EXCEPT ![centrality_scores_key] = rn.self]
        loop == StripLoop(rn.ret, ctx, 1, <<>>)
    IN  IF loop.exc # NoExc
        THEN Raise(loop.exc, loop.msg, looked, loop.drawn, loop.ctx, u1)
        ELSE Return(looked, loop.drawn, loop.ctx, u1)

\* The same function with a plt.figure() of its own before the panels.
plot_cluster_centrality_scores_own_figure(u, ctx, centrality_scores_key) ==
    IF centrality_scores_key \in UnsKeys(u)
    THEN CentralityBody(u, PltFigure(ctx), centrality_scores_key)
    ELSE Raise("ValueError", CentralityMessage(centrality_scores_key),
               <<<<"uns_keys">>>>, <<>>, ctx, u)

plot_cluster_centrality_scores(u, ctx, centrality_scores_key) ==
    IF centrality_scores_key \in UnsKeys(u)
    THEN CentralityBody(u, ctx, centrality_scores_key)
    ELSE Raise("ValueError", CentralityMessage(centrality_scores_key),
               <<<<"uns_keys">>>>, <<>>, ctx, u)

----------------------------------------------------------------------------
\* plot_cluster_interactions

\* plt.xticks / plt.yticks(range(len(labels)), labels, size="small")
Ticks(fn, ctx, labels) ==
    [fn |-> fn, figure |-> ctx.gcf, axes |-> ctx.gca,
     ticks |-> Range(Len(labels)), labels |-> labels, size |-> "small"]

\* Lines 92-98; interaction_matrix[0] and [1] of the source are [1] and [2] here.
InteractionsBody(u, ctx, cluster_interactions_key) ==
    LET interaction_matrix == u[cluster_interactions_key]
        c1 == PltFigure(ctx)
        c2 == AddSubplot(c1, <<1, 1, 1>>)
        c3 == FigColorbar(c2)
    IN  Return(<<<<"uns_keys">>, <<"uns">> \o cluster_interactions_key>>,
               << [fn |-> "matshow", figure |-> c2.gcf, axes |-> c2.gca,
                   data |-> interaction_matrix[1]],
                  [fn |-> "colorbar", figure |-> c3.gcf],
                  Ticks("xticks", c3, interaction_matrix[2]),
                  Ticks("yticks", c3, interaction_matrix[2]) >>,
               c3, u)

\* The same function with the figure opened before the key is checked.
plot_cluster_interactions_figure_first(u, ctx, cluster_interactions_key) ==
    IF cluster_interactions_key \in UnsKeys(u)
    THEN InteractionsBody(u, ctx, cluster_interactions_key)
    ELSE Raise("ValueError", InteractionsMessage(cluster_interactions_key),
               <<<<"uns_keys">>>>, <<>>, PltFigure(ctx), u)

plot_cluster_interactions(u, ctx, cluster_interactions_key) ==
    IF cluster_interactions_key \in UnsKeys(u)
    THEN InteractionsBody(u, ctx, cluster_interactions_key)
    ELSE Raise("ValueError", InteractionsMessage(cluster_interactions_key),
               <<<<"uns_keys">>>>, <<>>, ctx, u)

----------------------------------------------------------------------------
\* plot_ripley_k

\* Lines 123-124: hue_order from obs, palette from uns
PaletteLookup(u, o, cluster_key) ==
    LET column == GetItem(o, <<cluster_key>>)
        colors == GetItem(u, ColorsKey(cluster_key))
        obsLook == <<<<"obs", cluster_key>>>>
        bothLook == Append(obsLook, <<"uns">> \o ColorsKey(cluster_key))
    IN  IF column.exc # NoExc
        THEN [exc |-> column.exc, msg |-> column.msg, lookups |-> obsLook,
              hue_order |-> None, palette |-> None]
        ELSE IF column.val = Unsortable
        THEN [exc |-> "ValueError", msg |-> <<"np.sort">>, lookups |-> obsLook,
              hue_order |-> None, palette |-> None]
        ELSE IF colors.exc # NoExc
        THEN [exc |-> colors.exc, msg |-> colors.msg, lookups |-> bothLook,
              hue_order |-> None, palette |-> None]
        ELSE [exc |-> NoExc, msg |-> <<>>, lookups |-> bothLook,
              hue_order |-> [list |-> SortedSeq(column.val.labels)],
              palette |-> [list |-> colors.val]]

\* Line 125: except ValueError (inner)
InnerHandlerCatches(exc) == IsSubclass(exc, "ValueError")

\* Line 130: except ValueError (outer)
OuterHandlerCatchesException(exc) == IsSubclass(exc, "Exception")

OuterHandlerCatches(exc) == IsSubclass(exc, "ValueError")

\* Lines 122-128: the inner try statement
InnerTry(u, o, cluster_key) ==
    LET body == PaletteLookup(u, o, cluster_key)
    IN  IF body.exc # NoExc /\ InnerHandlerCatches(body.exc)
        THEN [body EXCEPT !.exc = "Warning", !.msg = PaletteMessage(cluster_key)]
        ELSE body

\* Lines 119-136: the outer try statement
OuterTry(u, o, cluster_key) ==
    LET stored == GetItem(u, DerivedKey(cluster_key))
        first == <<<<"uns">> \o DerivedKey(cluster_key)>>
        inner == InnerTry(u, o, cluster_key)
        body == IF stored.exc # NoExc
                THEN [exc |-> stored.exc, msg |-> stored.msg, lookups |-> first,
                      hue_order |-> None, palette |-> None, df |-> None]
                ELSE [exc |-> inner.exc, msg |-> inner.msg,
                      lookups |-> first \o inner.lookups,
                      hue_order |-> inner.hue_order, palette |-> inner.palette,
                      df |-> stored.val]
    IN  IF body.exc # NoExc /\ OuterHandlerCatches(body.exc)
        THEN [body EXCEPT !.exc = "ValueError", !.msg = RipleyMessage(cluster_key)]
        ELSE body

\* Lines 118-139: where the data, the hue order and the palette come from
RipleyData(u, o, cluster_key, df) ==
    IF df = None
    THEN OuterTry(u, o, cluster_key)
    ELSE [exc |-> NoExc, msg |-> <<>>, lookups |-> <<>>,
          hue_order |-> None, palette |-> None, df |-> df]

\* Lines 141-150
RipleyDraw(ctx, data) ==
    LET c1 == PltFigure(ctx)
        c2 == AddSubplot(c1, <<1, 1, 1>>)
    IN  [ctx |-> c2,
         drawn |-> << [fn |-> "lineplot", figure |-> c2.gcf, axes |-> c2.gca,
                       x |-> "distance", y |-> "ripley_k", hue |-> "leiden",
                       hue_order |-> data.hue_order, data |-> data.df,
                       palette |-> data.palette] >>]

\* The same function with the df argument ignored.
plot_ripley_k_ignores_df(u, o, ctx, cluster_key, df) ==
    LET data == RipleyData(u, o, cluster_key, None)
        plot == RipleyDraw(ctx, data)
    IN  IF data.exc # NoExc
        THEN Raise(data.exc, data.msg, data.lookups, <<>>, ctx, u)
        ELSE Return(data.lookups, plot.drawn, plot.ctx, u)

plot_ripley_k(u, o, ctx, cluster_key, df) ==
    LET data == RipleyData(u, o, cluster_key, df)
        plot == RipleyDraw(ctx, data)
    IN  IF data.exc # NoExc
        THEN Raise(data.exc, data.msg, data.lookups, <<>>, ctx, u)
        ELSE Return(data.lookups, plot.drawn, plot.ctx, u)

----------------------------------------------------------------------------------------------------------------------------------------
\* The state machine: a caller that calls the three operations in any order.

CentralityArgs == {CentralityDefaultKey, <<"scores">>}
InteractionsArgs == {InteractionsDefaultKey, <<"interactions">>}
DfArgs == {None, SuppliedRipley}

Ctx == [figures |-> figures, gcf |-> gcf, gca |-> gca]

\* The containers the upstream computations can have produced: each result
\* present or not, the Ripley-K results computed for StoredClusterKey.
Containers ==
    { [uns |-> c @@ i @@ r @@ p, obs |-> o] :
        c \in {<<>>} \cup { CentralityDefaultKey :> t : t \in CentralityTables },
        i \in {<<>>} \cup { InteractionsDefaultKey :> m : m \in InteractionResults },
        r \in {<<>>, DerivedKey(StoredClusterKey) :> StoredRipley},
        p \in {<<>>, ColorsKey(StoredClusterKey) :> Palette},
        o \in {<<>>} \cup { <<StoredClusterKey>> :> col : col \in ObsColumns } }

Init ==
    /\ \E c \in Containers : uns = c.uns /\ obs = c.obs
    /\ figures = <<>>
    /\ gcf = 0
    /\ gca = NoAxes
    /\ call = [op |-> "none", arg |-> <<>>, df |-> None]
    /\ outcome = "none"
    /\ message = <<>>
    /\ lookups = <<>>
    /\ drawn = <<>>

\* A call ends: its effects on the container and the drawing context, and
\* what the caller observes. Calls that would open a figure beyond MaxFigs
\* are not followed.
Effect(r) ==
    /\ Len(r.ctx.figures) <= MaxFigs
    /\ uns' = r.uns
    /\ obs' = obs
    /\ figures' = r.ctx.figures
    /\ gcf' = r.ctx.gcf
    /\ gca' = r.ctx.gca
    /\ outcome' = r.outcome
    /\ message' = r.message
    /\ lookups' = r.lookups
    /\ drawn' = r.drawn

PlotClusterCentralityScores ==
    \E key \in CentralityArgs :
        /\ call' = [op |-> "plot_cluster_centrality_scores", arg |-> key,
                    df |-> None]
        /\ Effect(plot_cluster_centrality_scores(uns, Ctx, key))

PlotClusterInteractions ==
    \E key \in InteractionsArgs :
        /\ call' = [op |-> "plot_cluster_interactions", arg |-> key, df |-> None]
        /\ Effect(plot_cluster_interactions(uns, Ctx, key))

PlotRipleyK ==
    \E cluster_key \in ClusterKeys, df \in DfArgs :
        /\ call' = [op |-> "plot_ripley_k", arg |-> <<cluster_key>>, df |-> df]
        /\ Effect(plot_ripley_k(uns, obs, Ctx, cluster_key, df))

Next ==
    \/ PlotClusterCentralityScores
    \/ PlotClusterInteractions
    \/ PlotRipleyK

Spec == Init /\ [][Next]_vars

----------------------------------------------------------------------------
\* Properties

Centrality == "plot_cluster_centrality_scores"
Interactions == "plot_cluster_interactions"
RipleyK == "plot_ripley_k"

\* The cluster key of the last plot_ripley_k call.
CalledClusterKey == call.arg[1]

\* The last call was plot_ripley_k without an explicit table.
DerivedCall == call.op = RipleyK /\ call.df = None

DrawnBy(fn) == { i \in 1..Len(drawn) : drawn[i].fn = fn }

Failed == outcome \notin {"none", "ok"}

\* C1: for each of the three operations, a call with a key absent from uns
\* ends in the module's own ValueError, whose message contains the supplied key.
C1_MissingKeyRaisesValueError ==
    /\ (call.op \in {Centrality, Interactions} /\ call.arg \notin DOMAIN uns)
         => (outcome = "ValueError" /\ Contains(message, call.arg))
    /\ (DerivedCall /\ DerivedKey(CalledClusterKey) \notin DOMAIN uns)
         => (outcome = "ValueError" /\ Contains(message, call.arg))

\* C2: plot_ripley_k without a table, derived key present, cluster column in
\* obs, colour slot absent: the call succeeds and the line plot is drawn.
C2_MissingPaletteStillPlots ==
    ( /\ DerivedCall
      /\ DerivedKey(CalledClusterKey) \in DOMAIN uns
      /\ call.arg \in DOMAIN obs
      /\ obs[call.arg] # Unsortable
      /\ ColorsKey(CalledClusterKey) \notin DOMAIN uns )
    => (outcome = "ok" /\ DrawnBy("lineplot") # {})

\* C3: plot_ripley_k without a table and without the derived key in uns raises
\* ValueError; the message names the derived key "ripley_k_" + cluster_key and
\* says to rerun ripley_k or pass a dataframe.
C3_MissingDerivedKeyRaisesValueError ==
    (DerivedCall /\ DerivedKey(CalledClusterKey) \notin DOMAIN uns)
    => ( /\ outcome = "ValueError"
         /\ Contains(message, DerivedKey(CalledClusterKey))
         /\ Contains(message, <<"\tplease rerun ripley_k or pass\n", "\ta dataframe">>) )

\* C4: plot_ripley_k with an explicit table looks nothing up in the container,
\* leaves hue order and palette None, draws the supplied table and raises
\* nothing, whatever the container holds.
C4_ExplicitTableBypassesLookups ==
    (call.op = RipleyK /\ call.df # None)
    => ( /\ outcome = "ok"
         /\ lookups = <<>>
         /\ Len(drawn) = 1
         /\ drawn[1].fn = "lineplot"
         /\ drawn[1].data = call.df
         /\ drawn[1].hue_order = None
         /\ drawn[1].palette = None )

C4_Witness ==
    /\ call.op = RipleyK
    /\ call.df = SuppliedRipley
    /\ DerivedKey(CalledClusterKey) \notin DOMAIN uns
    /\ outcome = "ok"
    /\ DrawnBy("lineplot") = {1}

\* The four metrics, in the order the panels show them.
Metrics ==
    <<"degree centrality", "clustering coefficient",
      "closeness centrality", "betweenness centrality">>

\* C5: plot_cluster_centrality_scores with a key whose table has the four
\* metric columns and N rows draws exactly 4 panels, at positions 1..4 of a
\* 1x4 grid, one per metric in the order degree, clustering, closeness,
\* betweenness, each with N points against the cluster axis; only panel 1
\* keeps the row-axis label and tick labels.
C5_FourPanels ==
    (call.op = Centrality /\ call.arg \in DOMAIN uns)
    => ( /\ outcome = "ok"
         /\ Len(drawn) = 4
         /\ \A i \in 1..4 :
              /\ drawn[i].fn = "stripplot"
              /\ drawn[i].axes = <<1, 4, i>>
              /\ drawn[i].x = DisplayName(Metrics[i])
              /\ drawn[i].y = "cluster"
              /\ drawn[i].points = uns[call.arg].nrows
              /\ drawn[i].ylabel = (i = 1)
              /\ drawn[i].labelleft = (i = 1) )

C5_Witness ==
    /\ call.op = Centrality
    /\ call.arg \in DOMAIN uns
    /\ uns[call.arg].nrows = 2
    /\ outcome = "ok"
    /\ Len(drawn) = 4

\* C6: plot_cluster_interactions with a key holding (M x M matrix, M labels)
\* draws one heat image with one colour bar and puts on the x and the y axis
\* the ticks 0..M-1, tick i labelled with label i of the stored sequence.
C6_TicksFollowLabels ==
    (call.op = Interactions /\ call.arg \in DOMAIN uns)
    => LET labels == uns[call.arg][2]
           M == Len(labels)
       IN  /\ outcome = "ok"
           /\ Cardinality(DrawnBy("matshow")) = 1
           /\ Cardinality(DrawnBy("colorbar")) = 1
           /\ figures[gcf].colorbars = 1
           /\ \A fn \in {"xticks", "yticks"} :
                /\ Cardinality(DrawnBy(fn)) = 1
                /\ \A i \in DrawnBy(fn) :
                     /\ Len(drawn[i].ticks) = M
                     /\ Len(drawn[i].labels) = M
                     /\ \A k \in 1..M :
                          /\ drawn[i].ticks[k] = k - 1
                          /\ drawn[i].labels[k] = labels[k]

C6_Witness ==
    /\ call.op = Interactions
    /\ call.arg \in DOMAIN uns
    /\ uns[call.arg][2] = <<2, 1>>
    /\ outcome = "ok"
    /\ DrawnBy("xticks") # {}

\* C7: no call, successful or failed, changes the container: uns (keys and
\* values, the centrality table's column names included) and obs stay as
\* they were.
C7_ContainerReadOnly == [][uns' = uns /\ obs' = obs]_vars

C7_Witness ==
    /\ call.op = Centrality
    /\ outcome = "ok"
    /\ drawn[1].x = "degree\ncentrality"
    /\ uns[call.arg].columns = CentralityColumns

\* C8: in plot_ripley_k without a table and with the derived key present, when
\* the order/palette lookup raises ValueError the caller gets the Warning about
\* the missing colour palette of cluster_key, never the missing-result
\* ValueError.
C8_SoftPathStaysWarning ==
    ( /\ DerivedCall
      /\ DerivedKey(CalledClusterKey) \in DOMAIN uns
      /\ call.arg \in DOMAIN obs
      /\ obs[call.arg] = Unsortable )
    => ( /\ outcome = "Warning"
         /\ message = PaletteMessage(CalledClusterKey)
         /\ ~IsSubclass(outcome, "ValueError") )

C8_Witness ==
    /\ DerivedCall
    /\ DerivedKey(CalledClusterKey) \in DOMAIN uns
    /\ call.arg \in DOMAIN obs
    /\ obs[call.arg] = Unsortable
    /\ outcome = "Warning"

\* C9: a call that raises leaves the drawing context as it was: no figure
\* created, no subplot added, current figure and axes unchanged.
C9_FailedCallLeavesContext ==
    [][Failed' => (figures' = figures /\ gcf' = gcf /\ gca' = gca)]_vars

C9_Witness ==
    /\ Failed
    /\ call.op = Interactions
    /\ Len(figures) >= 1
    /\ gcf = Len(figures)

\* C10: every successful plot_cluster_interactions or plot_ripley_k call adds
\* exactly one figure and makes it current; plot_cluster_centrality_scores
\* opens no figure when one is current: its four panels go into the current
\* figure, also when that figure is another call's.
C10_FigureCount ==
    [][ /\ (call'.op \in {Interactions, RipleyK} /\ outcome' = "ok")
          => (Len(figures') = Len(figures) + 1 /\ gcf' = Len(figures'))
        /\ (call'.op = Centrality /\ gcf # 0)
          => ( /\ Len(figures') = Len(figures)
               /\ gcf' = gcf
               /\ outcome' = "ok"
                    => \A i \in 1..4 : /\ <<1, 4, i>> \in figures'[gcf].subplots
                                       /\ drawn'[i].figure = gcf ) ]_vars

C10_Witness ==
    /\ call.op = Centrality
    /\ outcome = "ok"
    /\ Len(figures) = 1
    /\ figures[1].colorbars = 1
    /\ {<<1, 1, 1>>, <<1, 4, 1>>, <<1, 4, 4>>} \subseteq figures[1].subplots

====
